---- MODULE Spec2Model ----
(***************************************************************************)
(* Model of package crosswd (src/crosswd.go): the .puz codec (Read, Write, *)
(* the checksums) and the grid navigation (NextCell, WordExtent(s),        *)
(* WordID, Setup), together with the parts of the front end                *)
(* (src/cmd/crosswd/crosswd.go) that drive them.                           *)
(*                                                                         *)
(* Bytes are integers 0..255, a Go string is the sequence of its code      *)
(* points, a []byte is a sequence of bytes, a Coord is a record [X, Y],    *)
(* a Direction is one of the strings of Directions, a Go map is a function *)
(* whose domain is the set of keys present.  p is the Puzzle under study   *)
(* (cw in the front end), q a second Puzzle, loc the cursor of the front   *)
(* end.                                                                    *)
(***************************************************************************)
EXTENDS Integers, Sequences, FiniteSets, TLC

VARIABLES p, q, in, out, err, qerr, pc, call, res, loc

vars == <<p, q, in, out, err, qerr, pc, call, res, loc>>

(***************************************************************************)
(* Bounds of the model.                                                    *)
(***************************************************************************)
MaxWidth == 2
MaxHeight == 1
MaxText == 5
MaxClues == 1
MaxCells == 6
MaxLoopCells == 4
MaxOff == 1
MaxSide == 3
MaxClueLen == 2
MaxCursorCells == 4

(***************************************************************************)
(* Program constants.                                                      *)
(***************************************************************************)
Magic == <<65, 67, 82, 79, 83, 83, 38, 68, 79, 87, 78, 0>>
CksumMagic == <<73, 67, 72, 69, 65, 84, 69, 68>>
Blank == 46
Empty == 45
LetterA == 65
NUL == 0
Uint16 == 65536
HeaderLen == 52

Directions == {"NoDir", "Up", "Down", "Left", "Right"}

Opposite(d) ==
  CASE d = "Left" -> "Right"
    [] d = "Right" -> "Left"
    [] d = "Up" -> "Down"
    [] d = "Down" -> "Up"
    [] OTHER -> "NoDir"

Coord(x, y) == [X |-> x, Y |-> y]

Delta(d) ==
  CASE d = "Up" -> Coord(0, -1)
    [] d = "Down" -> Coord(0, 1)
    [] d = "Left" -> Coord(-1, 0)
    [] d = "Right" -> Coord(1, 0)
    [] OTHER -> Coord(0, 0)

(***************************************************************************)
(* Go integer arithmetic: / truncates toward zero, % takes the sign of the *)
(* dividend.                                                               *)
(***************************************************************************)
GoDiv(a, b) == IF a >= 0 THEN a \div b ELSE -((-a) \div b)

GoMod(a, b) == a - (b * GoDiv(a, b))

RECURSIVE Xor(_, _)
Xor(a, b) ==
  IF a = 0 THEN b
  ELSE IF b = 0 THEN a
  ELSE (((a % 2) + (b % 2)) % 2) + (2 * Xor(a \div 2, b \div 2))

Zeros(n) == [i \in 1..n |-> 0]

Take(s, n) == SubSeq(s, 1, IF n < Len(s) THEN n ELSE Len(s))

Drop(s, n) == SubSeq(s, n + 1, Len(s))

(***************************************************************************)
(* Grid.  elts holds the cells row-major; cells[y][x] is elts[y*w + x].    *)
(* The nil *Grid of a Puzzle that was never read is NilGrid.               *)
(***************************************************************************)
NilGrid == [w |-> 0, h |-> 0, elts |-> <<>>]

(* NewGrid without the clamp of width and height to 1.                     *)
NewGrid_NoClamp(width, height) == [w |-> width, h |-> height, elts |-> Zeros(width * height)]

NewGrid(width, height) ==
  LET w == IF width < 1 THEN 1 ELSE width
      h == IF height < 1 THEN 1 ELSE height
  IN [w |-> w, h |-> h, elts |-> Zeros(w * h)]

Size(g) == IF g.h = 0 THEN Coord(0, 0) ELSE Coord(g.w, g.h)

Valid(g, c) == c.Y >= 0 /\ c.Y < g.h /\ c.X >= 0 /\ c.X < g.w

At(g, c) ==
  IF ~Valid(g, c) THEN [c |-> 0, ok |-> FALSE]
  ELSE [c |-> g.elts[(c.Y * g.w) + c.X + 1], ok |-> TRUE]

GridSet(g, c, v) ==
  IF ~Valid(g, c) THEN [g |-> g, ok |-> FALSE]
  ELSE [g |-> [g EXCEPT !.elts[(c.Y * g.w) + c.X + 1] = v], ok |-> TRUE]

(***************************************************************************)
(* Header and its little-endian layout (encoding/binary).                  *)
(***************************************************************************)
ZeroHeader ==
  [Cksum |-> 0, Magic |-> Zeros(12), HeaderCksum |-> 0, MagicCksum |-> Zeros(8),
   Version |-> Zeros(4), Unused |-> Zeros(2), Unknown |-> Zeros(2),
   Reserved |-> Zeros(12), Width |-> 0, Height |-> 0, NumClues |-> 0,
   BitMask1 |-> Zeros(2), BitMask2 |-> Zeros(2)]

PutUint16(v) == <<v % 256, (v \div 256) % 256>>

GetUint16(b, off) == b[off + 1] + (256 * b[off + 2])

HeaderBytes(h) ==
  PutUint16(h.Cksum) \o h.Magic \o PutUint16(h.HeaderCksum) \o h.MagicCksum
    \o h.Version \o h.Unused \o h.Unknown \o h.Reserved
    \o <<h.Width, h.Height>> \o PutUint16(h.NumClues) \o h.BitMask1 \o h.BitMask2

ParseHeader(b) ==
  [Cksum |-> GetUint16(b, 0), Magic |-> SubSeq(b, 3, 14),
   HeaderCksum |-> GetUint16(b, 14), MagicCksum |-> SubSeq(b, 17, 24),
   Version |-> SubSeq(b, 25, 28), Unused |-> SubSeq(b, 29, 30),
   Unknown |-> SubSeq(b, 31, 32), Reserved |-> SubSeq(b, 33, 44),
   Width |-> b[45], Height |-> b[46], NumClues |-> GetUint16(b, 46),
   BitMask1 |-> SubSeq(b, 49, 50), BitMask2 |-> SubSeq(b, 51, 52)]

(***************************************************************************)
(* Text: the ISO 8859-1 decoder maps byte b to code point U+00b, the       *)
(* encoder maps code points 0..255 back and fails on any other; encode     *)
(* answers a failure with the empty byte slice.                            *)
(***************************************************************************)
Decode(bytes) == [i \in 1..Len(bytes) |-> bytes[i]]

encode(str) ==
  IF \E i \in 1..Len(str) : str[i] > 255 THEN <<>>
  ELSE [i \in 1..Len(str) |-> str[i]]

(***************************************************************************)
(* Checksums.                                                              *)
(***************************************************************************)
RECURSIVE calcCksum(_, _)
calcCksum(data, cksum) ==
  IF data = <<>> THEN cksum
  ELSE calcCksum(Tail(data),
         ((cksum \div 2) + ((cksum % 2) * 32768) + Head(data)) % Uint16)

HeaderCksum(pz) ==
  calcCksum(<<pz.Header.Width, pz.Header.Height>> \o PutUint16(pz.Header.NumClues)
              \o pz.Header.BitMask1 \o pz.Header.BitMask2, 0)

RECURSIVE LexLess(_, _)
LexLess(a, b) ==
  IF b = <<>> THEN FALSE
  ELSE IF a = <<>> THEN TRUE
  ELSE IF Head(a) # Head(b) THEN Head(a) < Head(b)
  ELSE LexLess(Tail(a), Tail(b))

RECURSIVE CluesCksum(_, _)
CluesCksum(clues, cksum) ==
  IF clues = <<>> THEN cksum
  ELSE CluesCksum(Tail(clues), calcCksum(encode(Head(clues)), cksum))

FieldCksum(str, cksum) ==
  IF Len(str) > 0 THEN calcCksum(encode(str \o <<NUL>>), cksum) ELSE cksum

(* TextCksum without the clues.                                            *)
TextCksum_NoClues(pz, cksum) ==
  LET c1 == FieldCksum(pz.Title, cksum)
      c2 == FieldCksum(pz.Author, c1)
      c3 == FieldCksum(pz.Copyright, c2)
  IN IF ~LexLess(pz.Header.Version, <<49, 46, 51>>)
       THEN FieldCksum(pz.Notes, c3)
       ELSE c3

TextCksum(pz, cksum) ==
  LET c1 == FieldCksum(pz.Title, cksum)
      c2 == FieldCksum(pz.Author, c1)
      c3 == FieldCksum(pz.Copyright, c2)
      c4 == CluesCksum(pz.Clues, c3)
  IN IF ~LexLess(pz.Header.Version, <<49, 46, 51>>)
       THEN FieldCksum(pz.Notes, c4)
       ELSE c4

Cksum(pz) ==
  TextCksum(pz, calcCksum(pz.Grid.elts, calcCksum(pz.Solution.elts, HeaderCksum(pz))))

MagicCksum(pz) ==
  LET cs == <<HeaderCksum(pz), calcCksum(pz.Solution.elts, 0),
              calcCksum(pz.Grid.elts, 0), TextCksum(pz, 0)>>
  IN [i \in 1..8 |->
        IF i <= 4 THEN Xor(cs[i] % 256, CksumMagic[i])
        ELSE Xor(cs[i - 4] \div 256, CksumMagic[i])]

(***************************************************************************)
(* Puzzle.  New() leaves every exported field at its zero value and makes  *)
(* the three index maps empty.                                             *)
(***************************************************************************)
EmptyMap == <<>>

MapGet(m, k) == IF k \in DOMAIN m THEN m[k] ELSE 0

New ==
  [Header |-> ZeroHeader, Grid |-> NilGrid, Solution |-> NilGrid,
   Title |-> <<>>, Author |-> <<>>, Copyright |-> <<>>, Clues |-> <<>>,
   Notes |-> <<>>, Extra |-> <<>>,
   cellID |-> EmptyMap, idCell |-> EmptyMap,
   clueNum |-> [Right |-> EmptyMap, Down |-> EmptyMap]]

(***************************************************************************)
(* strings.SplitN(s, "\x00", n) for n >= 0: nil for n = 0, else at most n  *)
(* pieces, the last one being the unsplit remainder.                       *)
(***************************************************************************)
IndexNUL(s) ==
  IF \E i \in 1..Len(s) : s[i] = NUL
    THEN CHOOSE i \in 1..Len(s) : s[i] = NUL /\ \A j \in 1..(i - 1) : s[j] # NUL
    ELSE 0

RECURSIVE SplitN(_, _)
SplitN(s, n) ==
  IF n = 0 THEN <<>>
  ELSE IF n = 1 \/ IndexNUL(s) = 0 THEN <<s>>
  ELSE <<SubSeq(s, 1, IndexNUL(s) - 1)>> \o SplitN(Drop(s, IndexNUL(s)), n - 1)

(***************************************************************************)
(* io.ReadFull(r, elts): fills elts from the stream; a stream that ends    *)
(* early leaves the bytes it had in elts and reports an error.             *)
(***************************************************************************)
ReadFull(g, r) ==
  LET n == g.w * g.h
  IN IF Len(r) >= n
       THEN [g |-> [g EXCEPT !.elts = SubSeq(r, 1, n)], ok |-> TRUE, rest |-> Drop(r, n)]
       ELSE [g |-> [g EXCEPT !.elts = r \o Zeros(n - Len(r))], ok |-> FALSE, rest |-> <<>>]

(***************************************************************************)
(* Puzzle.Read, from the header to the text fields.  The result is the     *)
(* puzzle as the call leaves it and the outcome: "nil", "warning" (a       *)
(* Warning value), "error" (any other error) or "panic" (index out of      *)
(* range on outFields, whose length 4+NumClues is computed in uint16).     *)
(***************************************************************************)
ReadText(pz, rest) ==
  LET N == pz.Header.NumClues
      inFields == SplitN(rest, (5 + N) % Uint16)
      outLen == (4 + N) % Uint16
      outFields(i) == IF i + 1 <= Len(inFields) THEN inFields[i + 1] ELSE <<>>
      notesIdx == (3 + N) % Uint16
      p1 == [pz EXCEPT !.Title = Decode(outFields(0))]
      p2 == [p1 EXCEPT !.Author = Decode(outFields(1))]
      p3 == [p2 EXCEPT !.Copyright = Decode(outFields(2))]
      nOk == IF outLen - 3 < N THEN outLen - 3 ELSE N
      p4 == [p3 EXCEPT !.Clues = @ \o [i \in 1..nOk |-> Decode(outFields(2 + i))]]
      p5 == [p4 EXCEPT !.Notes = Decode(outFields(notesIdx))]
      p6 == IF Len(inFields) > outLen
              THEN [p5 EXCEPT !.Extra = inFields[Len(inFields)]]
              ELSE p5
  IN IF outLen < 1 THEN [p |-> pz, err |-> "panic"]
     ELSE IF outLen < 2 THEN [p |-> p1, err |-> "panic"]
     ELSE IF outLen < 3 THEN [p |-> p2, err |-> "panic"]
     ELSE IF outLen - 3 < N THEN [p |-> p4, err |-> "panic"]
     ELSE IF notesIdx >= outLen THEN [p |-> p4, err |-> "panic"]
     ELSE IF Cksum(p6) # p6.Header.Cksum \/ MagicCksum(p6) # p6.Header.MagicCksum
               \/ HeaderCksum(p6) # p6.Header.HeaderCksum
            THEN [p |-> p6, err |-> "warning"]
     ELSE [p |-> p6, err |-> "nil"]

(* Read with the magic compared only after both grids are read.            *)
PuzzleRead_MagicAfterGrids(pz, r) ==
  IF Len(r) < HeaderLen THEN [p |-> pz, err |-> "error"]
  ELSE
    LET p1 == [pz EXCEPT !.Header = ParseHeader(SubSeq(r, 1, HeaderLen))]
        sol == ReadFull(NewGrid(p1.Header.Width, p1.Header.Height), Drop(r, HeaderLen))
        p2 == [p1 EXCEPT !.Solution = sol.g]
        grd == ReadFull(NewGrid(p1.Header.Width, p1.Header.Height), sol.rest)
        p3 == [p2 EXCEPT !.Grid = grd.g]
    IN IF ~sol.ok THEN [p |-> p2, err |-> "error"]
       ELSE IF ~grd.ok THEN [p |-> p3, err |-> "error"]
       ELSE IF p1.Header.Magic # Magic THEN [p |-> p3, err |-> "error"]
       ELSE ReadText(p3, grd.rest)

PuzzleRead(pz, r) ==
  IF Len(r) < HeaderLen THEN [p |-> pz, err |-> "error"]
  ELSE
    LET p1 == [pz EXCEPT !.Header = ParseHeader(SubSeq(r, 1, HeaderLen))]
        sol == ReadFull(NewGrid(p1.Header.Width, p1.Header.Height), Drop(r, HeaderLen))
        p2 == [p1 EXCEPT !.Solution = sol.g]
        grd == ReadFull(NewGrid(p1.Header.Width, p1.Header.Height), sol.rest)
        p3 == [p2 EXCEPT !.Grid = grd.g]
    IN IF p1.Header.Magic # Magic THEN [p |-> p1, err |-> "error"]
       ELSE IF ~sol.ok THEN [p |-> p2, err |-> "error"]
       ELSE IF ~grd.ok THEN [p |-> p3, err |-> "error"]
       ELSE ReadText(p3, grd.rest)

(***************************************************************************)
(* Puzzle.Write: stores the three recomputed checksums in the header and   *)
(* emits header, solution, working grid, the NUL-terminated text fields    *)
(* and Extra.                                                              *)
(***************************************************************************)
RECURSIVE WriteClues(_)
WriteClues(clues) ==
  IF clues = <<>> THEN <<>>
  ELSE encode(Head(clues) \o <<NUL>>) \o WriteClues(Tail(clues))

(* Write without the Extra bytes.                                          *)
PuzzleWrite_NoExtra(pz) ==
  LET p1 == [pz EXCEPT !.Header.HeaderCksum = HeaderCksum(pz)]
      p2 == [p1 EXCEPT !.Header.MagicCksum = MagicCksum(p1)]
      p3 == [p2 EXCEPT !.Header.Cksum = Cksum(p2)]
  IN [p |-> p3,
      w |-> HeaderBytes(p3.Header) \o p3.Solution.elts \o p3.Grid.elts
              \o encode(p3.Title \o <<NUL>>) \o encode(p3.Author \o <<NUL>>)
              \o encode(p3.Copyright \o <<NUL>>) \o WriteClues(p3.Clues)
              \o encode(p3.Notes \o <<NUL>>)]

PuzzleWrite(pz) ==
  LET p1 == [pz EXCEPT !.Header.HeaderCksum = HeaderCksum(pz)]
      p2 == [p1 EXCEPT !.Header.MagicCksum = MagicCksum(p1)]
      p3 == [p2 EXCEPT !.Header.Cksum = Cksum(p2)]
  IN [p |-> p3,
      w |-> HeaderBytes(p3.Header) \o p3.Solution.elts \o p3.Grid.elts
              \o encode(p3.Title \o <<NUL>>) \o encode(p3.Author \o <<NUL>>)
              \o encode(p3.Copyright \o <<NUL>>) \o WriteClues(p3.Clues)
              \o encode(p3.Notes \o <<NUL>>) \o p3.Extra]

(***************************************************************************)
(* The streams handed to Read.  A stream is the header, the two grids (a   *)
(* solution of the letters A, B, ... and a working grid that is Empty but  *)
(* for its last cell) and a text section; the stored checksums are those   *)
(* Read recomputes ("ok") or differ from them in one of the three places;  *)
(* a structural fault is a wrong magic byte or a stream cut short inside   *)
(* the header, the solution or the working grid.                           *)
(***************************************************************************)
BadMagic == [Magic EXCEPT ![1] = 66]

Versions == {<<49, 46, 50, 0>>, <<49, 46, 51, 0>>}

ClueCounts == (0..MaxClues) \cup {Uint16 - 1}

Texts == UNION {[1..k -> {NUL, LetterA}] : k \in 0..MaxText}

CksumFaults == {"ok", "cksum", "header", "magic"}

Faults == {"none", "magic", "cutHeader", "cutSolution", "cutGrid"}

Clamp(n) == IF n < 1 THEN 1 ELSE n

SolutionCells(n) == [i \in 1..n |-> LetterA + i - 1]

WorkingCells(n) == [i \in 1..n |-> IF i = n /\ n > 1 THEN LetterA + i - 1 ELSE Empty]

RawHeader(ver, w, h, n) ==
  [ZeroHeader EXCEPT !.Magic = Magic, !.Version = ver, !.Width = w, !.Height = h,
                     !.NumClues = n, !.BitMask1 = <<1, 0>>]

Body(w, h, text) ==
  SolutionCells(Clamp(w) * Clamp(h)) \o WorkingCells(Clamp(w) * Clamp(h)) \o text

Checksummed(hdr, r, ck) ==
  LET good == r.err \in {"nil", "warning"}
      c == IF good THEN Cksum(r.p) ELSE 0
      hc == IF good THEN HeaderCksum(r.p) ELSE 0
      mc == IF good THEN MagicCksum(r.p) ELSE Zeros(8)
  IN [hdr EXCEPT !.Cksum = IF ck = "cksum" THEN (c + 1) % Uint16 ELSE c,
                 !.HeaderCksum = IF ck = "header" THEN (hc + 1) % Uint16 ELSE hc,
                 !.MagicCksum = IF ck = "magic" THEN [mc EXCEPT ![8] = (@ + 1) % 256] ELSE mc]

Stored(hdr, body, ck) ==
  Checksummed(hdr, PuzzleRead(New, HeaderBytes(hdr) \o body), ck)

CutAt(fault, area) ==
  CASE fault = "cutHeader" -> HeaderLen - 1
    [] fault = "cutSolution" -> HeaderLen + area - 1
    [] fault = "cutGrid" -> HeaderLen + (2 * area) - 1

Stream(ver, w, h, n, text, ck, fault) ==
  LET hdr == Stored(RawHeader(ver, w, h, n), Body(w, h, text), ck)
      full == HeaderBytes([hdr EXCEPT !.Magic = IF fault = "magic" THEN BadMagic ELSE @])
                \o Body(w, h, text)
  IN IF fault \in {"none", "magic"} THEN full
     ELSE Take(full, CutAt(fault, Clamp(w) * Clamp(h)))

(***************************************************************************)
(* The codec specification: a Puzzle from New() is read from a stream,     *)
(* written, and the written bytes are read into a second Puzzle from       *)
(* New().  pc is the position of the caller: "new", then "read" or         *)
(* "failed", then "written".                                               *)
(***************************************************************************)
NoCall ==
  [state |-> "idle", pos |-> Coord(0, 0), dir |-> "NoDir", doSkip |-> FALSE,
   nextPos |-> Coord(0, 0), ret |-> Coord(0, 0)]

NoRes ==
  [op |-> "none", pos |-> Coord(0, 0), dir |-> "NoDir",
   start |-> Coord(0, 0), end |-> Coord(0, 0), id |-> 0]

Init ==
  /\ p = New
  /\ q = New
  /\ in = <<>>
  /\ out = <<>>
  /\ err = "none"
  /\ qerr = "none"
  /\ pc = "new"
  /\ call = NoCall
  /\ res = NoRes
  /\ loc = Coord(0, 0)

Read ==
  /\ pc = "new"
  /\ \E ver \in Versions, w \in 0..MaxWidth, h \in 0..MaxHeight, n \in ClueCounts,
        text \in Texts, ck \in CksumFaults, fault \in Faults :
       /\ fault # "none" => (ck = "ok" /\ Len(text) <= 1)
       /\ LET r == Stream(ver, w, h, n, text, ck, fault)
              got == PuzzleRead(p, r)
          IN /\ in' = r
             /\ p' = got.p
             /\ err' = got.err
             /\ pc' = IF got.err \in {"nil", "warning"} THEN "read" ELSE "failed"
  /\ UNCHANGED <<q, out, qerr, call, res, loc>>

Write ==
  /\ pc = "read"
  /\ LET wr == PuzzleWrite(p)
     IN /\ p' = wr.p
        /\ out' = wr.w
  /\ pc' = "written"
  /\ UNCHANGED <<q, in, err, qerr, call, res, loc>>

ReadBack ==
  /\ pc = "written"
  /\ qerr = "none"
  /\ LET got == PuzzleRead(q, out)
     IN /\ q' = got.p
        /\ qerr' = got.err
  /\ UNCHANGED <<p, in, out, err, pc, call, res, loc>>

Next == Read \/ Write \/ ReadBack

Spec == Init /\ [][Next]_vars

(***************************************************************************)
(* Navigation.                                                             *)
(***************************************************************************)
(* WrapPos without the carry from one coordinate into the other.           *)
WrapPos_NoCarry(g, c) ==
  LET size == Size(g)
  IN Coord(GoMod(GoMod(c.X, size.X) + size.X, size.X),
           GoMod(GoMod(c.Y, size.Y) + size.Y, size.Y))

WrapPos(g, c) ==
  LET size == Size(g)
      x == c.X + (GoDiv(c.Y + size.Y, size.Y) - 1)
      y == c.Y + (GoDiv(c.X + size.X, size.X) - 1)
  IN Coord(GoMod(GoMod(x, size.X) + size.X, size.X),
           GoMod(GoMod(y, size.Y) + size.Y, size.Y))

(* The loop of NextCell in two halves: the step and wrap of nextPos, and   *)
(* the test of the cell reached, which answers whether the call returns   *)
(* and with which value.                                                   *)
NextCellAdvance(g, nextPos, dir, doSkip) ==
  LET dlt == Delta(dir)
      stepped == Coord(nextPos.X + dlt.X, nextPos.Y + dlt.Y)
  IN IF doSkip THEN WrapPos(g, stepped) ELSE stepped

(* NextCellTest returning the cell reached even when it is Blank.          *)
NextCellTest_AnyCell(g, pos, nextPos, doSkip) ==
  LET a == At(g, nextPos)
  IN IF ~a.ok THEN [ret |-> TRUE, val |-> pos]
     ELSE [ret |-> TRUE, val |-> nextPos]

NextCellTest(g, pos, nextPos, doSkip) ==
  LET a == At(g, nextPos)
  IN IF ~a.ok THEN [ret |-> TRUE, val |-> pos]
     ELSE IF a.c = Blank THEN [ret |-> ~doSkip, val |-> pos]
     ELSE [ret |-> TRUE, val |-> nextPos]

(* NextCell(pos, dir, false): the loop returns in its first pass.          *)
NextCellOnce(g, pos, dir) ==
  IF Delta(dir) = Coord(0, 0) THEN pos
  ELSE NextCellTest(g, pos, NextCellAdvance(g, pos, dir, FALSE), FALSE).val

RECURSIVE WordExtent(_, _, _)
WordExtent(g, pos, dir) ==
  LET end == NextCellOnce(g, pos, dir)
  IN IF end = pos THEN end ELSE WordExtent(g, end, dir)

(* WordExtents without the exchange of the two ends.                       *)
WordExtents_NoSwap(g, pos, dir) ==
  [start |-> WordExtent(g, pos, Opposite(dir)), end |-> WordExtent(g, pos, dir)]

WordExtents(g, pos, dir) ==
  LET start == WordExtent(g, pos, Opposite(dir))
      end == WordExtent(g, pos, dir)
  IN IF start.X > end.X \/ start.Y > end.Y
       THEN [start |-> end, end |-> start]
       ELSE [start |-> start, end |-> end]

(* Solve: copy(p.elts, p.Solution.elts) copies as many bytes as the        *)
(* shorter of the two holds.                                               *)
PuzzleSolve(pz) ==
  [pz EXCEPT !.Grid.elts = Take(pz.Solution.elts, Len(@)) \o Drop(@, Len(pz.Solution.elts))]

WordID(pz, pos, dir) == MapGet(pz.cellID, WordExtent(pz.Grid, pos, Opposite(dir)))

(* NextWord around its NextCell call: the call it makes from the end of    *)
(* the word of pos, and the start of the word of the cell that call        *)
(* returned.                                                               *)
NextWordCell(g, pos, dir) ==
  LET end == WordExtent(g, pos, dir)
  IN [state |-> IF Delta(dir) = Coord(0, 0) THEN "ret" ELSE "advance",
      pos |-> end, dir |-> dir, doSkip |-> TRUE, nextPos |-> end, ret |-> end]

(* NextWord returning the cell NextCell gave, not the start of its word.   *)
NextWordStart_Cell(g, nextWordCell, dir) == nextWordCell

NextWordStart(g, nextWordCell, dir) == WordExtents(g, nextWordCell, dir).start

(***************************************************************************)
(* Setup: the scan of all cells, rows from the top, each row from the      *)
(* left, and at each cell that is not Blank the directions Right and Down. *)
(* st holds cellID, idCell, clueNum and the counters id and cnum.          *)
(***************************************************************************)
(* SetupDir without the test end != pos: a run of one cell is numbered.    *)
SetupDir_AnyLength(g, st, pos, dir) ==
  LET we == WordExtents(g, pos, dir)
      seen == pos \in DOMAIN st.cellID
      cid == IF seen THEN st.cellID[pos] ELSE st.id
  IN IF we.start = pos
       THEN [cellID |-> IF seen THEN st.cellID ELSE (pos :> st.id) @@ st.cellID,
             idCell |-> IF seen THEN st.idCell ELSE (st.id :> pos) @@ st.idCell,
             clueNum |-> [st.clueNum EXCEPT ![dir] = (cid :> st.cnum) @@ @],
             id |-> IF seen THEN st.id ELSE st.id + 1,
             cnum |-> st.cnum + 1]
       ELSE st

(* SetupDir without the test start == pos: a cell inside a word is         *)
(* numbered.                                                               *)
SetupDir_AnyCell(g, st, pos, dir) ==
  LET we == WordExtents(g, pos, dir)
      seen == pos \in DOMAIN st.cellID
      cid == IF seen THEN st.cellID[pos] ELSE st.id
  IN IF we.end # pos
       THEN [cellID |-> IF seen THEN st.cellID ELSE (pos :> st.id) @@ st.cellID,
             idCell |-> IF seen THEN st.idCell ELSE (st.id :> pos) @@ st.idCell,
             clueNum |-> [st.clueNum EXCEPT ![dir] = (cid :> st.cnum) @@ @],
             id |-> IF seen THEN st.id ELSE st.id + 1,
             cnum |-> st.cnum + 1]
       ELSE st

SetupDir(g, st, pos, dir) ==
  LET we == WordExtents(g, pos, dir)
      seen == pos \in DOMAIN st.cellID
      cid == IF seen THEN st.cellID[pos] ELSE st.id
  IN IF we.start = pos /\ we.end # pos
       THEN [cellID |-> IF seen THEN st.cellID ELSE (pos :> st.id) @@ st.cellID,
             idCell |-> IF seen THEN st.idCell ELSE (st.id :> pos) @@ st.idCell,
             clueNum |-> [st.clueNum EXCEPT ![dir] = (cid :> st.cnum) @@ @],
             id |-> IF seen THEN st.id ELSE st.id + 1,
             cnum |-> st.cnum + 1]
       ELSE st

(* SetupCell with Down taken before Right.                                 *)
SetupCell_DownFirst(g, st, pos) ==
  LET a == At(g, pos)
  IN IF ~a.ok \/ a.c = Blank THEN st
     ELSE SetupDir(g, SetupDir(g, st, pos, "Down"), pos, "Right")

SetupCell(g, st, pos) ==
  LET a == At(g, pos)
  IN IF ~a.ok \/ a.c = Blank THEN st
     ELSE SetupDir(g, SetupDir(g, st, pos, "Right"), pos, "Down")

RECURSIVE SetupScan(_, _, _)
SetupScan(g, st, i) ==
  IF i >= Size(g).X * Size(g).Y THEN st
  ELSE SetupScan(g, SetupCell(g, st, Coord(i % Size(g).X, i \div Size(g).X)), i + 1)

PuzzleSetup(pz) ==
  LET st == SetupScan(pz.Grid,
                      [cellID |-> pz.cellID, idCell |-> pz.idCell,
                       clueNum |-> pz.clueNum, id |-> 1, cnum |-> 0], 0)
  IN [pz EXCEPT !.cellID = st.cellID, !.idCell = st.idCell, !.clueNum = st.clueNum]

(***************************************************************************)
(* The navigation specifications: main reads a puzzle, calls Setup and     *)
(* then drives the navigation.  Each behaviour follows one call made after *)
(* Setup.  Under SpecNav the call is a WordExtents or a WordID, whose      *)
(* result res records; the puzzles read are all grids of at most MaxCells  *)
(* cells, each cell Blank or not, and the 3x3 grid whose only Blank cell   *)
(* is the centre.  Under SpecCell the call is a NextCell, followed through *)
(* its loop: call.state is "advance" at the head of the loop, "test" once  *)
(* nextPos is stepped and wrapped, and "ret" once the call has returned    *)
(* call.ret; the puzzles read are all grids of at most MaxLoopCells cells. *)
(***************************************************************************)
Shapes(n) == {sh \in (1..n) \X (1..n) : sh[1] * sh[2] <= n}

CentreBlank == [i \in 1..9 |-> IF i = 5 THEN Blank ELSE LetterA]

NavStream(w, h, cells) ==
  LET body == cells \o [i \in 1..Len(cells) |-> IF cells[i] = Blank THEN Blank ELSE Empty]
                \o Zeros(4)
  IN HeaderBytes(Stored(RawHeader(<<49, 46, 51, 0>>, w, h, 0), body, "ok")) \o body

NavRead(w, h, cells) ==
  LET got == PuzzleRead(New, NavStream(w, h, cells))
  IN /\ in = NavStream(w, h, cells)
     /\ p = got.p
     /\ err = got.err

NavReadUpTo(n) ==
  /\ \E sh \in Shapes(n) : \E cells \in [1..(sh[1] * sh[2]) -> {Blank, LetterA}] :
       NavRead(sh[1], sh[2], cells)
  /\ q = New
  /\ out = <<>>
  /\ qerr = "none"
  /\ pc = "read"
  /\ call = NoCall
  /\ res = NoRes
  /\ loc = Coord(0, 0)

NavScenario ==
  /\ NavRead(3, 3, CentreBlank)
  /\ q = New
  /\ out = <<>>
  /\ qerr = "none"
  /\ pc = "read"
  /\ call = NoCall
  /\ res = NoRes
  /\ loc = Coord(0, 0)

NavInit == NavReadUpTo(MaxCells) \/ NavScenario

CellInit == NavReadUpTo(MaxLoopCells)

Setup ==
  /\ pc = "read"
  /\ p' = PuzzleSetup(p)
  /\ pc' = "setup"
  /\ UNCHANGED <<q, in, out, err, qerr, call, res, loc>>

Positions ==
  {Coord(x, y) : x \in (0 - MaxOff)..(p.Grid.w - 1 + MaxOff),
                 y \in (0 - MaxOff)..(p.Grid.h - 1 + MaxOff)}

NextCellCall ==
  /\ pc = "setup"
  /\ call = NoCall
  /\ \E pos \in Positions, dir \in Directions, doSkip \in BOOLEAN :
       call' = [state |-> IF Delta(dir) = Coord(0, 0) THEN "ret" ELSE "advance",
                pos |-> pos, dir |-> dir, doSkip |-> doSkip,
                nextPos |-> pos, ret |-> pos]
  /\ UNCHANGED <<p, q, in, out, err, qerr, pc, res, loc>>

NextCellStep ==
  /\ call.state = "advance"
  /\ call' = [call EXCEPT !.state = "test",
                          !.nextPos = NextCellAdvance(p.Grid, call.nextPos, call.dir,
                                                      call.doSkip)]
  /\ UNCHANGED <<p, q, in, out, err, qerr, pc, res, loc>>

NextCellLook ==
  /\ call.state = "test"
  /\ LET t == NextCellTest(p.Grid, call.pos, call.nextPos, call.doSkip)
     IN call' = [call EXCEPT !.state = IF t.ret THEN "ret" ELSE "advance",
                             !.ret = t.val]
  /\ UNCHANGED <<p, q, in, out, err, qerr, pc, res, loc>>

WordExtentsCall ==
  /\ pc = "setup"
  /\ res = NoRes
  /\ \E pos \in Positions, dir \in Directions :
       LET we == WordExtents(p.Grid, pos, dir)
       IN res' = [op |-> "WordExtents", pos |-> pos, dir |-> dir,
                  start |-> we.start, end |-> we.end, id |-> 0]
  /\ UNCHANGED <<p, q, in, out, err, qerr, pc, call, loc>>

WordIDCall ==
  /\ pc = "setup"
  /\ res = NoRes
  /\ \E pos \in Positions, dir \in Directions :
       res' = [op |-> "WordID", pos |-> pos, dir |-> dir,
               start |-> pos, end |-> pos, id |-> WordID(p, pos, dir)]
  /\ UNCHANGED <<p, q, in, out, err, qerr, pc, call, loc>>

NavNext == Setup \/ WordExtentsCall \/ WordIDCall

SpecNav == NavInit /\ [][NavNext]_vars

CellNext == Setup \/ NextCellCall \/ NextCellStep \/ NextCellLook

SpecCell == CellInit /\ [][CellNext]_vars

(* NextCell runs without interruption: a call inside its loop takes its    *)
(* next step.                                                              *)
FairCell == SpecCell /\ WF_vars(NextCellStep) /\ WF_vars(NextCellLook)

(***************************************************************************)
(* NextWord: each behaviour of SpecWord follows one NextWord call made     *)
(* after Setup, through the loop of the NextCell call inside it.  res      *)
(* holds the arguments, the end of the word of pos and, once the op is     *)
(* "NextWordRet", the value returned in res.start.  The puzzles read are   *)
(* the grids of SpecCell and the squares of side up to MaxSide without a   *)
(* Blank cell.                                                             *)
(***************************************************************************)
FullSquare(n) == [i \in 1..(n * n) |-> LetterA]

SquareInit ==
  /\ \E n \in 1..MaxSide : NavRead(n, n, FullSquare(n))
  /\ q = New
  /\ out = <<>>
  /\ qerr = "none"
  /\ pc = "read"
  /\ call = NoCall
  /\ res = NoRes
  /\ loc = Coord(0, 0)

WordInit == CellInit \/ SquareInit

NextWordCall ==
  /\ pc = "setup"
  /\ call = NoCall
  /\ res = NoRes
  /\ \E pos \in Positions, dir \in Directions :
       /\ call' = NextWordCell(p.Grid, pos, dir)
       /\ res' = [op |-> "NextWord", pos |-> pos, dir |-> dir,
                  start |-> pos, end |-> WordExtent(p.Grid, pos, dir), id |-> 0]
  /\ UNCHANGED <<p, q, in, out, err, qerr, pc, loc>>

NextWordReturn ==
  /\ res.op = "NextWord"
  /\ call.state = "ret"
  /\ res' = [res EXCEPT !.op = "NextWordRet",
                        !.start = NextWordStart(p.Grid, call.ret, res.dir)]
  /\ UNCHANGED <<p, q, in, out, err, qerr, pc, call, loc>>

WordNext == Setup \/ NextWordCall \/ NextCellStep \/ NextCellLook \/ NextWordReturn

SpecWord == WordInit /\ [][WordNext]_vars

(***************************************************************************)
(* The library driven by a client, SpecEdit: a Puzzle from New() is read   *)
(* from a stream; the client may read the same stream into it again, call  *)
(* Setup, Write, and make one change: a Set or a Solve on the working      *)
(* grid, or an assignment to one of the exported text fields.  res records *)
(* the change; q keeps the Puzzle as it was before a clue was replaced.    *)
(* The streams are those of Spec whose text section is at most one byte or *)
(* leaves Title, Author and Copyright empty.                               *)
(***************************************************************************)
EditTexts == {t \in Texts : Len(t) <= 1 \/ (Len(t) >= 3 /\ SubSeq(t, 1, 3) = Zeros(3))}

ClueAlphabet == {LetterA - 1, LetterA, LetterA + 2}

ClueTexts == UNION {[1..k -> ClueAlphabet] : k \in 0..MaxClueLen}

Wide == 256

TextFields == {"Title", "Author", "Copyright", "Clues", "Notes"}

SetField(pz, f, str) ==
  CASE f = "Title" -> [pz EXCEPT !.Title = str]
    [] f = "Author" -> [pz EXCEPT !.Author = str]
    [] f = "Copyright" -> [pz EXCEPT !.Copyright = str]
    [] f = "Notes" -> [pz EXCEPT !.Notes = str]
    [] f = "Clues" -> [pz EXCEPT !.Clues[1] = str]

EditRead ==
  /\ pc = "new"
  /\ \E ver \in Versions, w \in 0..MaxWidth, h \in 0..MaxHeight, n \in ClueCounts,
        text \in EditTexts, ck \in {"ok", "cksum"}, fault \in {"none", "magic", "cutGrid"} :
       /\ fault # "none" => (ck = "ok" /\ text = <<>>)
       /\ \E r \in {Stream(ver, w, h, n, text, ck, fault)} :
            \E got \in {PuzzleRead(p, r)} :
              /\ in' = r
              /\ p' = got.p
              /\ err' = got.err
              /\ pc' = IF got.err \in {"nil", "warning"} THEN "read" ELSE "failed"
  /\ UNCHANGED <<q, out, qerr, call, res, loc>>

ReadAgain ==
  /\ pc = "read"
  /\ Len(p.Clues) <= MaxClues
  /\ \E got \in {PuzzleRead(p, in)} :
       /\ p' = got.p
       /\ err' = got.err
       /\ pc' = IF got.err \in {"nil", "warning"} THEN "read" ELSE "failed"
  /\ UNCHANGED <<q, in, out, qerr, call, res, loc>>

EditPositions == {Coord(x, y) : x \in 0..p.Grid.w, y \in 0..(p.Grid.h - 1)}

SetCall ==
  /\ pc \in {"read", "setup"}
  /\ res = NoRes
  /\ \E pos \in EditPositions, c \in {Empty, Blank, LetterA} :
       \E s \in {GridSet(p.Grid, pos, c)} :
         /\ p' = [p EXCEPT !.Grid = s.g]
         /\ res' = [NoRes EXCEPT !.op = "Set", !.pos = pos, !.id = IF s.ok THEN 1 ELSE 0]
  /\ UNCHANGED <<q, in, out, err, qerr, pc, call, loc>>

SolveCall ==
  /\ pc \in {"read", "setup"}
  /\ res = NoRes
  /\ p' = PuzzleSolve(p)
  /\ res' = [NoRes EXCEPT !.op = "Solve"]
  /\ UNCHANGED <<q, in, out, err, qerr, pc, call, loc>>

ReplaceClue ==
  /\ pc = "read"
  /\ res = NoRes
  /\ \E i \in 1..Len(p.Clues), str \in ClueTexts :
       /\ str # p.Clues[i]
       /\ p' = [p EXCEPT !.Clues[i] = str]
       /\ res' = [NoRes EXCEPT !.op = "ReplaceClue", !.id = i]
  /\ q' = p
  /\ pc' = "edited"
  /\ UNCHANGED <<in, out, err, qerr, call, loc>>

SetWideText ==
  /\ pc = "read"
  /\ res = NoRes
  /\ \E f \in TextFields, str \in {<<Wide>>, <<LetterA, Wide>>} :
       /\ f = "Clues" => Len(p.Clues) >= 1
       /\ p' = SetField(p, f, str)
       /\ res' = [NoRes EXCEPT !.op = f]
  /\ UNCHANGED <<q, in, out, err, qerr, pc, call, loc>>

EditNext ==
  \/ EditRead
  \/ ReadAgain
  \/ Setup
  \/ SetCall
  \/ SolveCall
  \/ ReplaceClue
  \/ SetWideText
  \/ Write

SpecEdit == Init /\ [][EditNext]_vars

(***************************************************************************)
(* The front end, SpecCursor: main reads a puzzle, calls Setup and places  *)
(* the cursor loc with NextCell((-1,0), Right, true); run then takes key   *)
(* events.  A key moves the cursor by a NextCell with doSkip or a NextWord *)
(* along one of the four directions (the call is followed through the loop *)
(* of NextCell, and the cursor takes its result when it returns), moves it *)
(* to the start of the word with a given ID, sets the cell under it to     *)
(* Empty or a letter, or solves the puzzle.  pc is "place" while main's    *)
(* NextCell runs and "run" from then on; res holds the move in flight.     *)
(* The puzzles read are all grids of at most MaxCursorCells cells, the     *)
(* working grid Blank where the solution is.                               *)
(***************************************************************************)
CursorInit == NavReadUpTo(MaxCursorCells)

Place ==
  /\ pc = "setup"
  /\ call = NoCall
  /\ call' = [state |-> "advance", pos |-> Coord(-1, 0), dir |-> "Right", doSkip |-> TRUE,
              nextPos |-> Coord(-1, 0), ret |-> Coord(-1, 0)]
  /\ pc' = "place"
  /\ UNCHANGED <<p, q, in, out, err, qerr, res, loc>>

Placed ==
  /\ pc = "place"
  /\ call.state = "ret"
  /\ loc' = call.ret
  /\ call' = NoCall
  /\ pc' = "run"
  /\ UNCHANGED <<p, q, in, out, err, qerr, res>>

KeyNextCell ==
  /\ pc = "run"
  /\ call = NoCall
  /\ \E dir \in {"Up", "Down", "Left", "Right"} :
       /\ call' = [state |-> "advance", pos |-> loc, dir |-> dir, doSkip |-> TRUE,
                   nextPos |-> loc, ret |-> loc]
       /\ res' = [NoRes EXCEPT !.op = "NextCell", !.pos = loc, !.dir = dir]
  /\ UNCHANGED <<p, q, in, out, err, qerr, pc, loc>>

KeyNextWord ==
  /\ pc = "run"
  /\ call = NoCall
  /\ \E dir \in {"Up", "Down", "Left", "Right"} :
       /\ call' = NextWordCell(p.Grid, loc, dir)
       /\ res' = [NoRes EXCEPT !.op = "NextWord", !.pos = loc, !.dir = dir]
  /\ UNCHANGED <<p, q, in, out, err, qerr, pc, loc>>

Moved ==
  /\ pc = "run"
  /\ call.state = "ret"
  /\ loc' = IF res.op = "NextWord" THEN NextWordStart(p.Grid, call.ret, res.dir)
            ELSE call.ret
  /\ call' = NoCall
  /\ res' = NoRes
  /\ UNCHANGED <<p, q, in, out, err, qerr, pc>>

KeyWordStart ==
  /\ pc = "run"
  /\ call = NoCall
  /\ \E id \in DOMAIN p.idCell : loc' = p.idCell[id]
  /\ UNCHANGED <<p, q, in, out, err, qerr, pc, call, res>>

KeySet ==
  /\ pc = "run"
  /\ call = NoCall
  /\ \E c \in {Empty, LetterA} : p' = [p EXCEPT !.Grid = GridSet(p.Grid, loc, c).g]
  /\ UNCHANGED <<q, in, out, err, qerr, pc, call, res, loc>>

KeySolve ==
  /\ pc = "run"
  /\ call = NoCall
  /\ p' = PuzzleSolve(p)
  /\ UNCHANGED <<q, in, out, err, qerr, pc, call, res, loc>>

CursorNext ==
  \/ Setup
  \/ Place
  \/ NextCellStep
  \/ NextCellLook
  \/ Placed
  \/ KeyNextCell
  \/ KeyNextWord
  \/ Moved
  \/ KeyWordStart
  \/ KeySet
  \/ KeySolve

SpecCursor == CursorInit /\ [][CursorNext]_vars

(***************************************************************************)
(* Claims about the codec, checked under Spec.                             *)
(***************************************************************************)
StreamHeader == ParseHeader(SubSeq(in, 1, HeaderLen))

GridBytes(h) == 2 * Clamp(h.Width) * Clamp(h.Height)

(* C1: a stream for which Read on a fresh Puzzle returns nil is emitted    *)
(* again byte for byte by a Write that follows at once.                    *)
C1_ByteRoundTrip == (pc = "written" /\ err = "nil") => out = in

(* C2: the bytes Write emits for a Puzzle that Read populated (nil or      *)
(* Warning), read into a fresh Puzzle, give the same Header (as it stands  *)
(* after the Write), grids, Title, Author, Copyright, Clues, Notes and     *)
(* Extra.                                                                  *)
C2_WriteReadRoundTrip ==
  qerr # "none" =>
    /\ qerr \in {"nil", "warning"}
    /\ q.Header = p.Header
    /\ q.Solution = p.Solution
    /\ q.Grid = p.Grid
    /\ q.Title = p.Title
    /\ q.Author = p.Author
    /\ q.Copyright = p.Copyright
    /\ q.Clues = p.Clues
    /\ q.Notes = p.Notes
    /\ q.Extra = p.Extra

C2_Witness ==
  /\ qerr # "none"
  /\ err = "warning"
  /\ p.Extra # <<>>
  /\ p.Grid.w = 2
  /\ p.Grid.elts # p.Solution.elts

C2_WitnessText ==
  /\ qerr # "none"
  /\ p.Title # <<>>
  /\ Len(p.Clues) = 1
  /\ p.Clues[1] # <<>>

(* C3: a stream with the right magic and enough bytes for both grids whose *)
(* stored overall, masked or header checksum differs from the recomputed   *)
(* one makes Read return a Warning, the Puzzle being populated as it is    *)
(* for the same stream with matching checksums.                            *)
ChecksumsDiffer ==
  \/ Cksum(p) # StreamHeader.Cksum
  \/ MagicCksum(p) # StreamHeader.MagicCksum
  \/ HeaderCksum(p) # StreamHeader.HeaderCksum

Matching ==
  HeaderBytes([StreamHeader EXCEPT !.Cksum = Cksum(p), !.HeaderCksum = HeaderCksum(p),
                                   !.MagicCksum = MagicCksum(p)])
    \o Drop(in, HeaderLen)

PopulatedAsMatching ==
  LET m == PuzzleRead(New, Matching)
  IN /\ m.err = "nil"
     /\ p = [m.p EXCEPT !.Header.Cksum = StreamHeader.Cksum,
                        !.Header.HeaderCksum = StreamHeader.HeaderCksum,
                        !.Header.MagicCksum = StreamHeader.MagicCksum]

C3_MismatchIsWarning ==
  (/\ pc \in {"read", "failed"}
   /\ Len(in) >= HeaderLen
   /\ StreamHeader.Magic = Magic
   /\ Len(in) >= HeaderLen + GridBytes(StreamHeader)
   /\ ChecksumsDiffer)
    => (err = "warning" /\ PopulatedAsMatching)

(* C3, as far as the code keeps it: the same with the clue counts left out *)
(* for which 4+NumClues wraps in uint16 and Read indexes out of range.     *)
C3_MismatchIsWarningUnlessWrap ==
  (/\ pc \in {"read", "failed"}
   /\ Len(in) >= HeaderLen
   /\ StreamHeader.Magic = Magic
   /\ Len(in) >= HeaderLen + GridBytes(StreamHeader)
   /\ StreamHeader.NumClues + 5 < Uint16
   /\ ChecksumsDiffer)
    => (err = "warning" /\ PopulatedAsMatching)

(* C4 as stated: a stream with a wrong magic makes Read return an error    *)
(* that is no Warning and leaves every field of the Puzzle as it was.      *)
C4_BadMagicLeavesAll ==
  (pc = "failed" /\ Len(in) >= HeaderLen /\ StreamHeader.Magic # Magic)
    => (err = "error" /\ p = New)

(* C4 as amended: a stream that holds a whole header with a wrong magic    *)
(* makes Read return an error that is no Warning and leaves every field    *)
(* but Header as it was; Header holds the decoded header of the stream.    *)
C4_BadMagicLeavesAllButHeader ==
  (pc = "failed" /\ Len(in) >= HeaderLen /\ StreamHeader.Magic # Magic)
    => (err = "error" /\ p = [New EXCEPT !.Header = StreamHeader])

C4_Witness ==
  /\ pc = "failed"
  /\ Len(in) > HeaderLen
  /\ StreamHeader.Magic # Magic
  /\ StreamHeader.Width = 2

(***************************************************************************)
(* Claims about the navigation, checked under SpecNav and FairCell.  The   *)
(* words of a grid are described here from the cells alone.                *)
(***************************************************************************)
Moves == {"Up", "Down", "Left", "Right"}

Cells == {Coord(x, y) : x \in 0..(p.Grid.w - 1), y \in 0..(p.Grid.h - 1)}

Open(c) == Valid(p.Grid, c) /\ At(p.Grid, c).c # Blank

HasOpenCell == \E c \in Cells : Open(c)

Toward(c, dir) == Coord(c.X + Delta(dir).X, c.Y + Delta(dir).Y)

(* c starts a word of more than one cell along dir (Right or Down).        *)
StartsWord(c, dir) ==
  Open(c) /\ ~Open(Toward(c, Opposite(dir))) /\ Open(Toward(c, dir))

(* the run of open cells through c along the axis of dir is c alone.       *)
RunOfOne(c, dir) ==
  Open(c) /\ ~Open(Toward(c, Opposite(dir))) /\ ~Open(Toward(c, dir))

Other(dir) == IF dir = "Right" THEN "Down" ELSE "Right"

RowMajor(c) == (c.Y * p.Grid.w) + c.X

WordStarts == {cd \in Cells \X {"Right", "Down"} : StartsWord(cd[1], cd[2])}

ScanKey(cd) == (2 * RowMajor(cd[1])) + (IF cd[2] = "Right" THEN 0 ELSE 1)

SkipCall == call.state # "idle" /\ call.doSkip /\ call.dir \in Moves

(* C5: on a grid with a cell that is not Blank, NextCell(pos, dir, true)   *)
(* returns, from every pos inside or outside the grid and for every dir of *)
(* Up, Down, Left, Right, and the cell returned is in bounds and not       *)
(* Blank.                                                                  *)
C5_SkipReachesOpenCell ==
  /\ []((SkipCall /\ HasOpenCell /\ call.state = "ret") => Open(call.ret))
  /\ ((SkipCall /\ HasOpenCell) ~> (call.state = "ret"))

C5_Witness ==
  /\ SkipCall
  /\ call.state = "ret"
  /\ ~Valid(p.Grid, call.pos)
  /\ call.dir = "Up"
  /\ Open(call.ret)
  /\ call.ret.X # call.pos.X
  /\ \E c \in Cells : ~Open(c)

(* C6: on a grid whose cells are all Blank, NextCell(pos, dir, true) with  *)
(* dir of Up, Down, Left, Right returns, and returns pos.                  *)
C6_AllBlankReturnsPos ==
  (SkipCall /\ ~HasOpenCell) ~> (call.state = "ret" /\ call.ret = call.pos)

(* C7: after Setup on a freshly read Puzzle the cells with an ID, taken    *)
(* row by row from the top and left to right in a row, carry 1, 2, 3, ...; *)
(* the clue indices 0, 1, 2, ... go to the (start cell, direction) pairs   *)
(* of all words longer than one cell in the same order of start cell,      *)
(* Right before Down at one cell, one index to each pair.                  *)
C7_SetupNumbersInScanOrder ==
  pc = "setup" =>
    /\ DOMAIN p.cellID = {cd[1] : cd \in WordStarts}
    /\ \A c \in DOMAIN p.cellID :
         p.cellID[c] = 1 + Cardinality({d \in DOMAIN p.cellID : RowMajor(d) < RowMajor(c)})
    /\ \A dir \in {"Right", "Down"} :
         DOMAIN p.clueNum[dir] = {p.cellID[cd[1]] : cd \in {e \in WordStarts : e[2] = dir}}
    /\ \A cd \in WordStarts :
         p.clueNum[cd[2]][p.cellID[cd[1]]] =
           Cardinality({e \in WordStarts : ScanKey(e) < ScanKey(cd)})

C7_Witness ==
  /\ pc = "setup"
  /\ Cardinality(DOMAIN p.cellID) = 3
  /\ Cardinality(WordStarts) = 4
  /\ \E c \in Cells : StartsWord(c, "Right") /\ StartsWord(c, "Down") /\ RowMajor(c) > 0

(* C8: the 3x3 grid whose only Blank cell is the centre.                   *)
IsCentreBlank ==
  /\ p.Grid.w = 3
  /\ p.Grid.h = 3
  /\ \A i \in 1..9 : (p.Grid.elts[i] = Blank) <=> (i = 5)

(* C8 as stated: Setup gives an ID to exactly the two cells (0,0) and      *)
(* (0,2), the starts of the across words of row 0 and row 2.               *)
C8_CentreBlankTwoIDs ==
  (pc = "setup" /\ IsCentreBlank) => DOMAIN p.cellID = {Coord(0, 0), Coord(0, 2)}

(* C8 as amended: Setup gives an ID to exactly three cells: 1 to (0,0),    *)
(* which starts the across word of row 0 and the down word of column 0,    *)
(* 2 to (2,0), which starts the down word of column 2, and 3 to (0,2),     *)
(* which starts the across word of row 2.                                  *)
C8_CentreBlankThreeIDs ==
  (pc = "setup" /\ IsCentreBlank) =>
    /\ DOMAIN p.cellID = {Coord(0, 0), Coord(2, 0), Coord(0, 2)}
    /\ p.cellID[Coord(0, 0)] = 1
    /\ p.cellID[Coord(2, 0)] = 2
    /\ p.cellID[Coord(0, 2)] = 3

C8_Witness == pc = "setup" /\ IsCentreBlank /\ Cardinality(DOMAIN p.idCell) = 3

(* C9 as stated: after Setup, WordID(pos, dir) is 0 for every cell pos     *)
(* that is not Blank and dir of Right, Down along which the run through    *)
(* pos is pos alone.                                                       *)
C9_RunOfOneHasNoID ==
  (res.op = "WordID" /\ res.dir \in {"Right", "Down"} /\ RunOfOne(res.pos, res.dir))
    => res.id = 0

(* C9 as amended: in that case WordID(pos, dir) is 0 unless pos starts a   *)
(* word longer than one cell along the other axis; then it is the ID of    *)
(* pos, which is at least 1.                                               *)
C9_RunOfOneHasCrossID ==
  (res.op = "WordID" /\ res.dir \in {"Right", "Down"} /\ RunOfOne(res.pos, res.dir))
    => /\ res.id = MapGet(p.cellID, res.pos)
       /\ res.id >= 0
       /\ (res.id # 0) <=> StartsWord(res.pos, Other(res.dir))

C9_Witness ==
  /\ res.op = "WordID"
  /\ res.dir = "Right"
  /\ RunOfOne(res.pos, res.dir)
  /\ res.id = 2

C9_WitnessZero ==
  /\ res.op = "WordID"
  /\ res.dir = "Down"
  /\ RunOfOne(res.pos, res.dir)
  /\ res.id = 0
  /\ p.cellID # EmptyMap

(* C10: for every pos in bounds and dir of Up, Down, Left, Right,          *)
(* WordExtents(pos, dir) gives start <= end in the coordinate along dir    *)
(* and the same other coordinate; pos lies between them when its cell is   *)
(* not Blank.                                                              *)
Along(c, dir) == IF dir \in {"Left", "Right"} THEN c.X ELSE c.Y

Across(c, dir) == IF dir \in {"Left", "Right"} THEN c.Y ELSE c.X

C10_ExtentsOrdered ==
  (res.op = "WordExtents" /\ res.dir \in Moves /\ Valid(p.Grid, res.pos)) =>
    /\ Along(res.start, res.dir) <= Along(res.end, res.dir)
    /\ Across(res.start, res.dir) = Across(res.end, res.dir)
    /\ Open(res.pos) =>
         /\ Along(res.start, res.dir) <= Along(res.pos, res.dir)
         /\ Along(res.pos, res.dir) <= Along(res.end, res.dir)

C10_Witness ==
  /\ res.op = "WordExtents"
  /\ res.dir = "Left"
  /\ Open(res.pos)
  /\ res.start.X < res.pos.X
  /\ res.pos.X < res.end.X

C10_WitnessBlank ==
  /\ res.op = "WordExtents"
  /\ res.dir = "Up"
  /\ Valid(p.Grid, res.pos)
  /\ ~Open(res.pos)
  /\ res.start.Y < res.end.Y

(***************************************************************************)
(* Claims about NextWord, checked under SpecWord.                          *)
(***************************************************************************)
IsFullSquare == p.Grid.w = p.Grid.h /\ \A c \in Cells : Open(c)

(* pos is a cell of the last word along dir: the bottom row for Right, the *)
(* rightmost column for Down, the top row for Left, the leftmost column    *)
(* for Up.                                                                 *)
InLastWord(pos, dir) ==
  /\ Valid(p.Grid, pos)
  /\ CASE dir = "Right" -> pos.Y = p.Grid.h - 1
       [] dir = "Down" -> pos.X = p.Grid.w - 1
       [] dir = "Left" -> pos.Y = 0
       [] dir = "Up" -> pos.X = 0

FirstWordStart(dir) ==
  CASE dir = "Left" -> Coord(0, p.Grid.h - 1)
    [] dir = "Up" -> Coord(p.Grid.w - 1, 0)
    [] OTHER -> Coord(0, 0)

(* C11: on an N x N grid without a Blank cell, NextWord from a cell of the *)
(* last word along dir returns the start of the first word along dir:      *)
(* (0,0) for Right from the bottom row and for Down from the rightmost     *)
(* column, (0,N-1) for Left from the top row, (N-1,0) for Up from the      *)
(* leftmost column.                                                        *)
C11_NextWordWraps ==
  (/\ res.op = "NextWordRet"
   /\ IsFullSquare
   /\ res.dir \in Moves
   /\ InLastWord(res.pos, res.dir))
    => res.start = FirstWordStart(res.dir)

C11_Witness ==
  /\ res.op = "NextWordRet"
  /\ IsFullSquare
  /\ p.Grid.w = 3
  /\ res.dir = "Left"
  /\ res.pos = Coord(1, 0)
  /\ res.start = Coord(0, 2)

C11_WitnessUp ==
  /\ res.op = "NextWordRet"
  /\ IsFullSquare
  /\ p.Grid.w = 2
  /\ res.dir = "Up"
  /\ res.pos = Coord(0, 1)
  /\ res.start = Coord(1, 0)

(***************************************************************************)
(* Claims about a Puzzle in the hands of a client, checked under SpecEdit. *)
(***************************************************************************)
Populated == pc \in {"read", "setup", "written", "edited"} /\ err \in {"nil", "warning"}

(* C12 as stated: after every Read that returned nil or a Warning, and     *)
(* after Set, Solve, Setup and Write on the Puzzle it populated, the       *)
(* working grid and the solution grid have the same Size(), and that size  *)
(* is (Header.Width, Header.Height), for every Width and Height read.      *)
C12_GridsMatchHeader ==
  Populated =>
    /\ Size(p.Grid) = Size(p.Solution)
    /\ Size(p.Grid) = Coord(p.Header.Width, p.Header.Height)

(* C12 as amended: the two sizes are equal, and equal to Header.Width and  *)
(* Header.Height with a value of 0 replaced by 1.                          *)
C12_GridsMatchClampedHeader ==
  Populated =>
    /\ Size(p.Grid) = Size(p.Solution)
    /\ Size(p.Grid) = Coord(Clamp(p.Header.Width), Clamp(p.Header.Height))

C12_Witness ==
  /\ pc = "setup"
  /\ err = "nil"
  /\ res.op = "Solve"
  /\ p.Header.Width = 0
  /\ p.Header.Height = 1
  /\ Size(p.Grid) = Coord(1, 1)

C12_WitnessWrite ==
  /\ pc = "written"
  /\ res.op = "Set"
  /\ res.id = 1
  /\ p.Header.Width = 2
  /\ Size(p.Solution) = Coord(2, 1)

(* C13: in every state reached by Read calls on one Puzzle that each       *)
(* returned nil or a Warning, a Read on the Puzzle an earlier Read         *)
(* populated included, len(Clues) is Header.NumClues.                      *)
C13_CluesMatchNumClues == Populated => Len(p.Clues) = p.Header.NumClues

(* C14 as stated: replacing the text of one clue of a populated Puzzle by  *)
(* a different text changes the value of Cksum().                          *)
C14_ClueChangesCksum == pc = "edited" => Cksum(p) # Cksum(q)

DiffersInOneChar(a, b) ==
  Len(a) = Len(b) /\ Cardinality({i \in 1..Len(a) : a[i] # b[i]}) = 1

(* C14 as amended: replacing the text of one clue by a text of the same    *)
(* length that differs from it in exactly one character, both texts of     *)
(* code points 0 to 255, changes the value of Cksum().                     *)
C14_OneCharChangesCksum ==
  (pc = "edited" /\ DiffersInOneChar(p.Clues[res.id], q.Clues[res.id]))
    => Cksum(p) # Cksum(q)

C14_Witness ==
  /\ pc = "edited"
  /\ Len(q.Clues[res.id]) = 2
  /\ DiffersInOneChar(p.Clues[res.id], q.Clues[res.id])
  /\ p.Clues[res.id][1] # q.Clues[res.id][1]
  /\ Cksum(p) # Cksum(q)

(* the bytes Write emitted for the text fields: what follows the header    *)
(* and the two grids, without Extra.                                       *)
WrittenFields ==
  Take(Drop(out, HeaderLen + Len(p.Solution.elts) + Len(p.Grid.elts)),
       Len(out) - HeaderLen - Len(p.Solution.elts) - Len(p.Grid.elts) - Len(p.Extra))

(* C15: when a text field holds a character outside code points 0 to 255,  *)
(* Write emits no stream that lacks the bytes or the NUL terminator of a   *)
(* field: the text fields it wrote hold a NUL for each of Title, Author,   *)
(* Copyright, every clue and Notes.                                        *)
C15_WideTextNotDropped ==
  (pc = "written" /\ res.op \in TextFields)
    => Cardinality({i \in 1..Len(WrittenFields) : WrittenFields[i] = NUL}) >= 4 + Len(p.Clues)

(* C17: a Read of a stream with the right magic and enough bytes for both  *)
(* grids returns nil, a Warning or an error for every NumClues; it never   *)
(* indexes the fields out of range.                                        *)
C17_ReadNeverPanics ==
  (/\ pc \in {"read", "failed"}
   /\ Len(in) >= HeaderLen
   /\ StreamHeader.Magic = Magic
   /\ Len(in) >= HeaderLen + GridBytes(StreamHeader))
    => err \in {"nil", "warning", "error"}

(***************************************************************************)
(* Claims about the cursor of the front end, checked under SpecCursor.     *)
(***************************************************************************)
BlankLayout(g) == {i \in 1..Len(g.elts) : g.elts[i] = Blank}

(* C16: from the cursor main places, on a puzzle with a cell that is not   *)
(* Blank, every sequence of NextCell with doSkip, NextWord, WordStart of   *)
(* an ID that exists, Set of Empty or a letter at the cursor and Solve     *)
(* keeps the cursor on a cell in bounds that is not Blank, and the Blank   *)
(* cells of the working grid stay those of the solution.                   *)
C16_CursorStaysOpen ==
  pc = "run" =>
    /\ Open(loc)
    /\ BlankLayout(p.Grid) = BlankLayout(p.Solution)

C16_Witness ==
  /\ pc = "run"
  /\ call = NoCall
  /\ p.Grid.w = 2
  /\ p.Grid.h = 2
  /\ ~Open(Coord(0, 0))
  /\ loc = Coord(1, 1)
  /\ At(p.Grid, loc).c = LetterA
  /\ At(p.Grid, Coord(1, 0)).c = Empty
  /\ At(p.Grid, Coord(0, 1)).c = LetterA

====
